---- MODULE Spec2Model ----
(***************************************************************************)
(* Model of the download manager of src-tauri/src/downloads.rs: the        *)
(* registry of transfers behind one mutex, the control commands, and the   *)
(* run_download worker tasks the commands spawn.  A worker step is one     *)
(* stretch of run_download between two suspension points (.await); a       *)
(* section run under the registry lock is one atomic step.                 *)
(*                                                                         *)
(* The filesystem is one download directory with POSIX semantics: a path   *)
(* names an inode, an open handle keeps its inode across unlink/rename.    *)
(* The server holds one body of BodyLen bytes; byte k of the body has the  *)
(* value k, so that a duplicated, missing or reordered byte is visible in  *)
(* a file's content.  The rate limiter only delays a worker and is left    *)
(* out (it changes no state the commands or other workers read).           *)
(***************************************************************************)
EXTENDS Integers, Sequences, FiniteSets, TLC

\* ---------------------------------------------------------------- bounds
BodyLen == 2       \* bytes of the server's body
MaxClock == 1      \* readings of the wall clock beyond the first
\* the scenarios explored: transfers ever started, run_download tasks ever
\* spawned, tasks running at once
RaceIds == 1       \* Spec: one transfer ...
RaceSpawns == 2    \* ... whose two attempts ...
RaceActive == 2    \* ... may run at once
SeqIds == 1        \* SeqSpec: one transfer ...
SeqSpawns == 3     \* ... with three attempts ...
SeqActive == 1     \* ... one after the other
TimedIds == 1      \* TimedSpec: one transfer ...
TimedSpawns == 2   \* ... with two attempts ...
TimedActive == 1   \* ... one after the other, while the clock advances
LiveIds == 1       \* LiveSpec: one transfer ...
LiveSpawns == 2    \* ... with two attempts ...
LiveActive == 1    \* ... one after the other, every task being run on
PairIds == 2       \* PairSpec: two transfers ...
PairSpawns == 2    \* ... and two tasks ...
PairActive == 1    \* ... one after the other

\* ------------------------------------------------------ program constants
MaxUniqueIndex == 9999   \* build_unique_path: for index in 1..=9999

None == -1                \* Option::None of total_bytes
NoError == "None"         \* Option::None of error
Hole == -1                \* a byte of a file never written (sparse gap)

\* An Option of the payload is a sequence: << >> is None, <<x>> is Some(x).
Some(x) == <<x>>

VARIABLES
  downloads,   \* DownloadManagerInner.downloads: id -> [info, cancel]
  tokens,      \* the CancellationTokens made so far: token -> state
  workers,     \* the run_download tasks spawned so far, in spawn order
  files,       \* directory: path -> inode
  inodes,      \* inode -> content (sequence of byte values)
  nextId,      \* uuids handed out so far
  clock,       \* now_ms()
  events,      \* ids emitted as download:completed, in order
  reply        \* the last command and what it returned

vars == <<downloads, tokens, workers, files, inodes, nextId, clock, events, reply>>

\* ------------------------------------------------------------- names, urls
Download_name == <<"d", "o", "w", "n", "l", "o", "a", "d">>
\* A file name is a sequence of characters.
Reserved == {"\\", "/", ":", "*", "?", "\"", "<", ">", "|"}

RECURSIVE TrimStart(_)
TrimStart(s) == IF s # << >> /\ Head(s) = " " THEN TrimStart(Tail(s)) ELSE s

RECURSIVE TrimEnd(_)
TrimEnd(s) ==
  IF s # << >> /\ s[Len(s)] = " " THEN TrimEnd(SubSeq(s, 1, Len(s) - 1)) ELSE s

Trim(s) == TrimEnd(TrimStart(s))

sanitize_file_name(input) ==
  LET trimmed == [i \in 1..Len(Trim(input)) |->
                    IF Trim(input)[i] \in Reserved THEN "-" ELSE Trim(input)[i]]
  IN IF trimmed = << >> THEN Download_name ELSE trimmed

\* A url: whether Url::parse accepts it, its scheme, its last path segment,
\* and whether its text ends in ".torrent".
file_name_from_url(url) ==
  IF url.segment # << >> THEN sanitize_file_name(url.segment)
  ELSE Download_name

parse_kind(kind, url) ==
  IF kind # << >>
  THEN (IF kind[1] = "magnet" THEN "Magnet"
        ELSE IF kind[1] = "torrent" THEN "Torrent" ELSE "Http")
  ELSE IF url.scheme = "magnet" THEN "Magnet"
  ELSE IF url.torrent THEN "Torrent"
  ELSE "Http"

\* ------------------------------------------------------------- filesystem
\* A path of the download directory: the file name, the " (index)" suffix
\* build_unique_path put before the extension (0: none) and whether the
\* extension carries ".part".
Path(name, index, part) == [name |-> name, index |-> index, part |-> part]
NoPath == Path(<< >>, 0, FALSE)      \* the empty string of an External record

Exists(p) == p \in DOMAIN files

RECURSIVE FirstFree(_, _)
FirstFree(name, index) ==
  IF index > MaxUniqueIndex THEN Path(name, 0, FALSE)
  ELSE IF ~Exists(Path(name, index, FALSE)) THEN Path(name, index, FALSE)
  ELSE FirstFree(name, index + 1)

build_unique_path(file_name) ==
  IF ~Exists(Path(file_name, 0, FALSE)) THEN Path(file_name, 0, FALSE)
  ELSE FirstFree(file_name, 1)

TempPath(final_path) == [final_path EXCEPT !.part = TRUE]

FileLen(p) == IF Exists(p) THEN Len(inodes[files[p]]) ELSE 0

Unlink(fs, p) == [q \in DOMAIN fs \ {p} |-> fs[q]]

\* write at byte offset pos of a content, leaving a gap of holes if the
\* content is shorter than pos
WriteAt(content, pos, byte) ==
  [i \in 1..(IF Len(content) > pos + 1 THEN Len(content) ELSE pos + 1) |->
     IF i = pos + 1 THEN byte
     ELSE IF i <= Len(content) THEN content[i] ELSE Hole]

\* the server's body: byte k has the value k
Body == [i \in 1..BodyLen |-> i - 1]

\* ------------------------------------------------------------------ state
now_ms == clock

Url(valid, scheme, segment, torrent) ==
  [valid |-> valid, scheme |-> scheme, segment |-> segment, torrent |-> torrent]

\* the StartDownloadPayloads the front end sends
Payloads ==
  { [url |-> Url(TRUE, "https", <<"b">>, FALSE),
     file_name |-> Some(<<" ", "a", "/">>), kind |-> << >>],
    [url |-> Url(TRUE, "magnet", << >>, FALSE), file_name |-> << >>, kind |-> << >>],
    [url |-> Url(TRUE, "ftp", <<"a">>, FALSE), file_name |-> << >>, kind |-> << >>],
    [url |-> Url(FALSE, "", << >>, FALSE), file_name |-> << >>, kind |-> Some("other")] }

Empty == [x \in {} |-> x]

NoReply == [cmd |-> "none", id |-> 0, result |-> "none"]
Reply(cmd, id, result) == [cmd |-> cmd, id |-> id, result |-> result]

Init ==
  /\ downloads = Empty
  /\ tokens = << >>
  /\ workers = << >>
  /\ files = Empty
  /\ inodes = Empty
  /\ nextId = 0
  /\ clock = 0
  /\ events = << >>
  /\ reply = NoReply

\* a task at the top of run_download
NewWorker(id) ==
  [id |-> id, pc |-> "start", recorded |-> 0, save_path |-> NoPath, cancel |-> 0,
   downloaded_bytes |-> 0, range |-> << >>, file |-> 0, append |-> FALSE,
   pos |-> 0, stream |-> 0]

\* a task that has returned
Returned(w) == [NewWorker(workers[w].id) EXCEPT !.pc = "done"]

Active(w) == workers[w].pc # "done"

\* tauri::async_runtime::spawn(run_download(manager, app, id))
Spawn(id) == Append(workers, NewWorker(id))

is_cancelled(t) == tokens[t] # "live"

\* CancellationToken::cancel(): by is the command that trips it; a token
\* tripped by cancel_download stays marked so
Trip(t, by) ==
  [tokens EXCEPT ![t] = IF @ = "cancel" THEN "cancel" ELSE by]

\* ------------------------------------------------------------- registry
Has(id) == id \in DOMAIN downloads

Insert(id, info, cancel) == downloads @@ (id :> [info |-> info, cancel |-> cancel])

\* a faulty update_download_info, for contrast: the closure's result as it is
update_download_info_unstamped(id, updater) ==
  IF Has(id)
  THEN [downloads EXCEPT ![id].info = updater[@]]
  ELSE downloads

\* update_download_info: the closure's result, stamped, if the id is there
update_download_info(id, updater) ==
  IF Has(id)
  THEN [downloads EXCEPT ![id].info = [updater[@] EXCEPT !.updated_at = now_ms]]
  ELSE downloads

\* the record a closure passed to update_download_info is applied to, if any
Record(id) == {downloads[i].info : i \in {id} \cap DOMAIN downloads}

External_name == <<"E", "x", "t", "e", "r", "n", "a", "l", " ", "T", "r", "a", "n", "s", "f", "e", "r">>

\* --------------------------------------------------------------- commands
\* a faulty allocator, for contrast: the least id no record of the registry has now
NewId_reuse == CHOOSE id \in 1..(nextId + 1) : ~Has(id) /\ \A i \in 1..(id - 1) : Has(i)

\* uuid::Uuid::new_v4(): an id no transfer has had
NewId == nextId + 1

\* start_download, the Http branch once the url is accepted.  created_at is
\* the reading of the clock at the top of the command (line 256), taken
\* before the directory is made and the registry lock is acquired.
StartHttp(p) ==
  \E created_at \in 0..now_ms :
  LET id == NewId
      safe_name == IF p.file_name # << >> THEN sanitize_file_name(p.file_name[1])
                   ELSE file_name_from_url(p.url)
      final_path == build_unique_path(safe_name)
      info == [id |-> id, url |-> p.url,
               file_name |-> [name |-> final_path.name, index |-> final_path.index],
               save_path |-> final_path, temp_path |-> TempPath(final_path),
               status |-> "Queued", total_bytes |-> None, downloaded_bytes |-> 0,
               speed_bps |-> 0, error |-> NoError, created_at |-> created_at,
               updated_at |-> created_at, resume_supported |-> TRUE, kind |-> "Http"]
  IN /\ nextId' = id
     /\ tokens' = Append(tokens, "live")
     /\ downloads' = Insert(id, info, Len(tokens) + 1)
     /\ workers' = Spawn(id)
     /\ reply' = Reply("start", id, "Ok")
     /\ UNCHANGED <<files, inodes, clock, events>>

\* start_download, the Magnet / Torrent branch
StartExternal(p, kind) ==
  \E created_at \in 0..now_ms :
  LET id == NewId
      info == [id |-> id, url |-> p.url,
               file_name |-> [name |-> IF p.file_name # << >>
                                       THEN sanitize_file_name(p.file_name[1])
                                       ELSE External_name,
                              index |-> 0],
               save_path |-> NoPath, temp_path |-> NoPath,
               status |-> "External", total_bytes |-> None, downloaded_bytes |-> 0,
               speed_bps |-> 0, error |-> NoError, created_at |-> created_at,
               updated_at |-> created_at, resume_supported |-> FALSE, kind |-> kind]
  IN /\ nextId' = id
     /\ tokens' = Append(tokens, "live")
     /\ downloads' = Insert(id, info, Len(tokens) + 1)
     /\ reply' = Reply("start", id, "Ok")
     /\ UNCHANGED <<workers, files, inodes, clock, events>>

\* a command that returns Err (or Ok) and changes nothing
Return(cmd, id, result) ==
  /\ reply' = Reply(cmd, id, result)
  /\ UNCHANGED <<downloads, tokens, workers, files, inodes, nextId, clock, events>>

\* a faulty start_download, for contrast: it does not look at the scheme
start_download_anyscheme(p) ==
  LET kind == parse_kind(p.kind, p.url)
  IN IF kind = "Http"
     THEN IF ~p.url.valid THEN Return("start", 0, "Invalid URL")
          ELSE StartHttp(p)
     ELSE StartExternal(p, kind)

start_download(p) ==
  LET kind == parse_kind(p.kind, p.url)
  IN IF kind = "Http"
     THEN IF ~p.url.valid THEN Return("start", 0, "Invalid URL")
          ELSE IF p.url.scheme # "http" /\ p.url.scheme # "https"
               THEN Return("start", 0, "Only http and https URLs are supported.")
          ELSE StartHttp(p)
     ELSE StartExternal(p, kind)

\* a faulty pause_download, for contrast: it stops a Queued transfer too
pause_download_queued(id) ==
  IF ~Has(id) THEN Return("pause", id, "Download not found")
  ELSE IF downloads[id].info.status \notin {"Running", "Queued"}
       THEN Return("pause", id, "Ok")
  ELSE /\ downloads' = [downloads EXCEPT ![id].info.status = "Paused",
                                          ![id].info.updated_at = now_ms]
       /\ tokens' = Trip(downloads[id].cancel, "pause")
       /\ reply' = Reply("pause", id, "Ok")
       /\ UNCHANGED <<workers, files, inodes, nextId, clock, events>>

pause_download(id) ==
  IF ~Has(id) THEN Return("pause", id, "Download not found")
  ELSE IF downloads[id].info.status # "Running" THEN Return("pause", id, "Ok")
  ELSE /\ downloads' = [downloads EXCEPT ![id].info.status = "Paused",
                                          ![id].info.updated_at = now_ms]
       /\ tokens' = Trip(downloads[id].cancel, "pause")
       /\ reply' = Reply("pause", id, "Ok")
       /\ UNCHANGED <<workers, files, inodes, nextId, clock, events>>

resume_download(id) ==
  IF ~Has(id) THEN Return("resume", id, "Download not found")
  ELSE IF downloads[id].info.kind # "Http"
       THEN Return("resume", id, "Resume is only available for HTTP downloads.")
  ELSE IF downloads[id].info.status = "Completed" THEN Return("resume", id, "Ok")
  ELSE IF ~downloads[id].info.resume_supported /\ downloads[id].info.downloaded_bytes > 0
       THEN Return("resume", id,
                   "Server does not support resume. Restart the download instead.")
  ELSE /\ tokens' = Append(tokens, "live")
       /\ downloads' = [downloads EXCEPT ![id].cancel = Len(tokens) + 1,
                                          ![id].info.status = "Queued",
                                          ![id].info.error = NoError,
                                          ![id].info.updated_at = now_ms]
       /\ workers' = Spawn(id)
       /\ reply' = Reply("resume", id, "Ok")
       /\ UNCHANGED <<files, inodes, nextId, clock, events>>

cancel_download(id) ==
  IF ~Has(id) THEN Return("cancel", id, "Download not found")
  ELSE IF downloads[id].info.status \in {"Completed", "Canceled"}
       THEN Return("cancel", id, "Ok")
  ELSE /\ downloads' = [downloads EXCEPT ![id].info.status = "Canceled",
                                          ![id].info.updated_at = now_ms]
       /\ tokens' = Trip(downloads[id].cancel, "cancel")
       /\ reply' = Reply("cancel", id, "Ok")
       /\ UNCHANGED <<workers, files, inodes, nextId, clock, events>>

restart_download(id) ==
  IF ~Has(id) THEN Return("restart", id, "Download not found")
  ELSE IF downloads[id].info.kind # "Http"
       THEN Return("restart", id, "Restart is only available for HTTP downloads.")
  ELSE /\ files' = Unlink(files, downloads[id].info.temp_path)
       /\ tokens' = Append(tokens, "live")
       /\ downloads' = [downloads EXCEPT ![id].info.downloaded_bytes = 0,
                                          ![id].info.total_bytes = None,
                                          ![id].info.speed_bps = 0,
                                          ![id].info.status = "Queued",
                                          ![id].info.error = NoError,
                                          ![id].cancel = Len(tokens) + 1,
                                          ![id].info.updated_at = now_ms]
       /\ workers' = Spawn(id)
       /\ reply' = Reply("restart", id, "Ok")
       /\ UNCHANGED <<inodes, nextId, clock, events>>

\* a faulty remove_download, for contrast: it refuses only Running and Queued
remove_download_paused(id) ==
  IF ~Has(id) THEN Return("remove", id, "Download not found")
  ELSE IF downloads[id].info.status \in {"Running", "Queued"}
       THEN Return("remove", id, "Stop the download before removing it.")
  ELSE /\ downloads' = [i \in DOMAIN downloads \ {id} |-> downloads[i]]
       /\ reply' = Reply("remove", id, "Ok")
       /\ UNCHANGED <<tokens, workers, files, inodes, nextId, clock, events>>

remove_download(id) ==
  IF ~Has(id) THEN Return("remove", id, "Download not found")
  ELSE IF downloads[id].info.status \in {"Running", "Queued", "Paused"}
       THEN Return("remove", id, "Stop the download before removing it.")
  ELSE /\ downloads' = [i \in DOMAIN downloads \ {id} |-> downloads[i]]
       /\ reply' = Reply("remove", id, "Ok")
       /\ UNCHANGED <<tokens, workers, files, inodes, nextId, clock, events>>

\* ------------------------------------------------------------ the server
\* What the server may answer to a GET whose Range header asks for the bytes
\* from offset range[1] on (<< >>: no Range header).  send is FALSE when the
\* request itself fails; start is the body offset of the first streamed byte.
Response(status, content_length, accept_ranges, start) ==
  [send |-> TRUE, status |-> status, content_length |-> content_length,
   accept_ranges |-> accept_ranges, start |-> start]

Server(range) ==
  {[send |-> FALSE]}
  \cup {Response(500, None, "absent", 0)}
  \cup {Response(200, BodyLen, "bytes", 0), Response(200, None, "absent", 0)}
  \cup (IF range = << >> THEN {}
        ELSE IF range[1] >= BodyLen THEN {Response(416, None, "absent", 0)}
        ELSE {Response(206, BodyLen - range[1], "bytes", range[1]),
              Response(206, None, "absent", range[1])})

\* ---------------------------------------------------------------- worker
\* run_download of task w, one step per stretch between suspension points.
Id(w) == workers[w].id

Goto(w, pc) == [workers EXCEPT ![w].pc = pc]

\* a faulty failure path, for contrast: the task returns, the record is not told
Fail_unrecorded(w, error) ==
  /\ downloads' = downloads
  /\ workers' = [workers EXCEPT ![w] = Returned(w)]

Fail(w, error) ==
  /\ downloads' = update_download_info(Id(w),
                     [d \in Record(Id(w)) |-> [d EXCEPT !.status = "Failed", !.error = error]])
  /\ workers' = [workers EXCEPT ![w] = Returned(w)]

\* read_download_info(&manager, &id), lines 476-483
W_read(w) ==
  /\ workers[w].pc = "start"
  /\ workers' = IF Has(Id(w)) /\ downloads[Id(w)].info.kind = "Http"
                THEN [workers EXCEPT ![w].pc = "token",
                                     ![w].recorded = downloads[Id(w)].info.downloaded_bytes,
                                     ![w].save_path = downloads[Id(w)].info.save_path]
                ELSE [workers EXCEPT ![w] = Returned(w)]
  /\ UNCHANGED <<downloads, tokens, files, inodes, nextId, clock, events, reply>>

\* the clone of the record's cancellation token, lines 489-495
W_token(w) ==
  /\ workers[w].pc = "token"
  /\ workers' = IF Has(Id(w))
                THEN [workers EXCEPT ![w].pc = "running",
                                     ![w].cancel = downloads[Id(w)].cancel]
                ELSE [workers EXCEPT ![w] = Returned(w)]
  /\ UNCHANGED <<downloads, tokens, files, inodes, nextId, clock, events, reply>>

\* the transition to Running, lines 508-512 (ensure_dir of the download
\* directory, which start_download created, succeeds)
W_running(w) ==
  /\ workers[w].pc = "running"
  /\ downloads' = update_download_info(Id(w),
                     [d \in Record(Id(w)) |-> [d EXCEPT !.status = "Running", !.error = NoError]])
  /\ workers' = Goto(w, "stat")
  /\ UNCHANGED <<tokens, files, inodes, nextId, clock, events, reply>>

\* a faulty starting offset, for contrast: the larger of the two counts
Reconcile_larger(recorded, existing_bytes) ==
  IF recorded > existing_bytes THEN recorded ELSE existing_bytes

\* the starting offset, lines 519-522
Reconcile(recorded, existing_bytes) ==
  LET larger == IF recorded > existing_bytes THEN recorded ELSE existing_bytes
  IN IF larger > existing_bytes THEN existing_bytes ELSE larger

\* the Range header of the request, lines 524-527
RangeHeader(downloaded_bytes) ==
  IF downloaded_bytes > 0 THEN Some(downloaded_bytes) ELSE << >>

\* fs::metadata(&temp_path) and the request built from it, lines 514-527
W_stat(w) ==
  LET offset == Reconcile(workers[w].recorded, FileLen(TempPath(workers[w].save_path)))
  IN
  /\ workers[w].pc = "stat"
  /\ workers' = [workers EXCEPT
        ![w].pc = "send",
        ![w].recorded = 0,
        ![w].downloaded_bytes = offset,
        ![w].range = RangeHeader(offset)]
  /\ UNCHANGED <<downloads, tokens, files, inodes, nextId, clock, events, reply>>

\* resume_supported from the Accept-Ranges header, lines 577-582
ResumeSupported(accept_ranges, downloaded_bytes) ==
  IF accept_ranges = "absent" THEN downloaded_bytes > 0 ELSE accept_ranges = "bytes"

\* a faulty total, for contrast: the Content-Length of the response alone
TotalBytes_length(content_length, downloaded_bytes) == content_length

\* content_length.map(|length| length + downloaded_bytes), line 576
TotalBytes(content_length, downloaded_bytes) ==
  IF content_length = None THEN None ELSE content_length + downloaded_bytes

\* the request and the validation of the response, lines 524-588
W_send(w) ==
  /\ workers[w].pc = "send"
  /\ \E r \in Server(workers[w].range) :
       IF ~r.send THEN Fail(w, "Request failed")
       ELSE IF r.status = 416
       THEN /\ downloads' = update_download_info(Id(w),
                   [d \in Record(Id(w)) |-> [d EXCEPT !.status = "Failed",
                                        !.error = "Range not satisfiable. Restart the download.",
                                        !.resume_supported = FALSE]])
            /\ workers' = [workers EXCEPT ![w] = Returned(w)]
       ELSE IF workers[w].downloaded_bytes > 0 /\ r.status # 206
       THEN /\ downloads' = update_download_info(Id(w),
                   [d \in Record(Id(w)) |-> [d EXCEPT !.status = "Failed",
                                        !.error = "Server does not support resume",
                                        !.resume_supported = FALSE]])
            /\ workers' = [workers EXCEPT ![w] = Returned(w)]
       ELSE IF ~(r.status >= 200 /\ r.status <= 299) THEN Fail(w, "Download failed")
       ELSE /\ downloads' = update_download_info(Id(w),
                   [d \in Record(Id(w)) |-> [d EXCEPT
                     !.total_bytes = TotalBytes(r.content_length, workers[w].downloaded_bytes),
                     !.resume_supported =
                        ResumeSupported(r.accept_ranges, workers[w].downloaded_bytes)]])
            /\ workers' = [workers EXCEPT ![w].pc = "open", ![w].stream = r.start]
  /\ UNCHANGED <<tokens, files, inodes, nextId, clock, events, reply>>

\* OpenOptions ... open(&temp_path), lines 590-603: append if the offset is
\* positive, else truncate; both create the file if it is missing.  A file
\* made here gets the inode w.
W_open(w) ==
  LET temp == TempPath(workers[w].save_path)
      ino == IF Exists(temp) THEN files[temp] ELSE w
  IN /\ workers[w].pc = "open"
     /\ files' = IF Exists(temp) THEN files ELSE files @@ (temp :> w)
     /\ inodes' = IF ~Exists(temp) THEN inodes @@ (w :> << >>)
                  ELSE IF workers[w].downloaded_bytes > 0 THEN inodes
                  ELSE [inodes EXCEPT ![ino] = << >>]
     /\ workers' = [workers EXCEPT ![w].pc = "next", ![w].file = ino, ![w].pos = 0,
                                   ![w].append = workers[w].downloaded_bytes > 0]
     /\ UNCHANGED <<downloads, tokens, nextId, clock, events, reply>>

\* a faulty loop head, for contrast: the token is not looked at
W_next_unchecked(w) ==
  /\ workers[w].pc = "next"
  /\ IF workers[w].stream >= BodyLen THEN workers' = Goto(w, "flush")
     ELSE \E ok \in BOOLEAN : workers' = Goto(w, IF ok THEN "write" ELSE "stream_err")
  /\ UNCHANGED <<downloads, tokens, files, inodes, nextId, clock, events, reply>>

\* stream.next().await and the check of the token, lines 623-644.  The
\* stream yields the body one byte per chunk, or an error in place of a chunk.
W_next(w) ==
  /\ workers[w].pc = "next"
  /\ IF workers[w].stream >= BodyLen THEN workers' = Goto(w, "flush")
     ELSE IF is_cancelled(workers[w].cancel) THEN workers' = Goto(w, "cancelled")
     ELSE \E ok \in BOOLEAN : workers' = Goto(w, IF ok THEN "write" ELSE "stream_err")
  /\ UNCHANGED <<downloads, tokens, files, inodes, nextId, clock, events, reply>>

\* the update after the token was seen tripped, lines 625-631
W_cancelled(w) ==
  /\ workers[w].pc = "cancelled"
  /\ downloads' = update_download_info(Id(w),
                     [d \in Record(Id(w)) |-> IF d.status # "Canceled"
                                THEN [d EXCEPT !.status = "Paused"] ELSE d])
  /\ workers' = [workers EXCEPT ![w] = Returned(w)]
  /\ UNCHANGED <<tokens, files, inodes, nextId, clock, events, reply>>

\* a faulty error path, for contrast: the chunk is asked for again
W_stream_err_retry(w) ==
  /\ workers[w].pc = "stream_err"
  /\ workers' = Goto(w, "next")
  /\ UNCHANGED <<downloads, tokens, files, inodes, nextId, clock, events, reply>>

\* the update after the stream gave an error, lines 636-643
W_stream_err(w) ==
  /\ workers[w].pc = "stream_err"
  /\ Fail(w, "Stream error")
  /\ UNCHANGED <<tokens, files, inodes, nextId, clock, events, reply>>

\* file.write_all(&chunk) and the counters, lines 664-676; tick is whether
\* 500 ms have passed since the last publish
W_write(w) ==
  LET byte == Body[workers[w].stream + 1]
  IN /\ workers[w].pc = "write"
     /\ inodes' = [inodes EXCEPT ![workers[w].file] =
                     IF workers[w].append THEN Append(@, byte)
                     ELSE WriteAt(@, workers[w].pos, byte)]
     /\ \E tick \in BOOLEAN :
          workers' = [workers EXCEPT
             ![w].pc = IF tick THEN "publish" ELSE "next",
             ![w].pos = @ + 1,
             ![w].stream = @ + 1,
             ![w].downloaded_bytes = @ + 1]
     /\ UNCHANGED <<downloads, tokens, files, nextId, clock, events, reply>>

\* the progress publish, lines 677-685; the speed estimate of a window is
\* kept as one positive value
W_publish(w) ==
  /\ workers[w].pc = "publish"
  /\ downloads' = update_download_info(Id(w),
        [d \in Record(Id(w)) |-> [d EXCEPT !.downloaded_bytes = workers[w].downloaded_bytes,
                             !.speed_bps = 1]])
  /\ workers' = Goto(w, "next")
  /\ UNCHANGED <<tokens, files, inodes, nextId, clock, events, reply>>

\* file.flush() and the final publish, lines 689-701
W_flush(w) ==
  /\ workers[w].pc = "flush"
  /\ downloads' = update_download_info(Id(w),
        [d \in Record(Id(w)) |-> [d EXCEPT !.downloaded_bytes = workers[w].downloaded_bytes]])
  /\ workers' = Goto(w, "rename")
  /\ UNCHANGED <<tokens, files, inodes, nextId, clock, events, reply>>

\* fs::rename(&temp_path, &save_path), line 714
W_rename(w) ==
  LET save == workers[w].save_path
      temp == TempPath(save)
  IN /\ workers[w].pc = "rename"
     /\ IF Exists(temp)
        THEN /\ files' = [q \in (DOMAIN files \ {temp}) \cup {save} |->
                            IF q = save THEN files[temp] ELSE files[q]]
             /\ workers' = Goto(w, "complete")
        ELSE /\ files' = files
             /\ workers' = Goto(w, "finalize_err")
     /\ UNCHANGED <<downloads, tokens, inodes, nextId, clock, events, reply>>

\* the update after the rename, lines 714-730: Failed if it gave an error,
\* else Completed and app.emit
W_finalize(w) ==
  /\ workers[w].pc \in {"finalize_err", "complete"}
  /\ IF workers[w].pc = "finalize_err"
     THEN /\ Fail(w, "Finalize error")
          /\ events' = events
     ELSE /\ downloads' = update_download_info(Id(w),
               [d \in Record(Id(w)) |-> [d EXCEPT
                  !.status = "Completed",
                  !.total_bytes = IF @ = None THEN workers[w].downloaded_bytes ELSE @,
                  !.speed_bps = 0]])
          /\ events' = Append(events, Id(w))
          /\ workers' = [workers EXCEPT ![w] = Returned(w)]
  /\ UNCHANGED <<tokens, files, inodes, nextId, clock, reply>>

\* ------------------------------------------------------------ the system
Tick ==
  /\ clock < MaxClock
  /\ clock' = clock + 1
  /\ UNCHANGED <<downloads, tokens, workers, files, inodes, nextId, events, reply>>

\* the front end names the ids it was given
Known == 1..nextId

\* the scenario's bounds on the state a step leads to
Within(ids, spawns, active) ==
  /\ nextId' <= ids
  /\ Len(workers') <= spawns
  /\ Cardinality({w \in 1..Len(workers') : workers'[w].pc # "done"}) <= active

Next(ids, spawns, active) ==
  \/ \E p \in Payloads : start_download(p) /\ Within(ids, spawns, active)
  \/ \E id \in Known : pause_download(id)
  \/ \E id \in Known : resume_download(id) /\ Within(ids, spawns, active)
  \/ \E id \in Known : cancel_download(id)
  \/ \E id \in Known : restart_download(id) /\ Within(ids, spawns, active)
  \/ \E id \in Known : remove_download(id)
  \/ \E w \in 1..Len(workers) : W_read(w)
  \/ \E w \in 1..Len(workers) : W_token(w)
  \/ \E w \in 1..Len(workers) : W_running(w)
  \/ \E w \in 1..Len(workers) : W_stat(w)
  \/ \E w \in 1..Len(workers) : W_send(w)
  \/ \E w \in 1..Len(workers) : W_open(w)
  \/ \E w \in 1..Len(workers) : W_next(w)
  \/ \E w \in 1..Len(workers) : W_cancelled(w)
  \/ \E w \in 1..Len(workers) : W_stream_err(w)
  \/ \E w \in 1..Len(workers) : W_write(w)
  \/ \E w \in 1..Len(workers) : W_publish(w)
  \/ \E w \in 1..Len(workers) : W_flush(w)
  \/ \E w \in 1..Len(workers) : W_rename(w)
  \/ \E w \in 1..Len(workers) : W_finalize(w)

Spec == Init /\ [][Next(RaceIds, RaceSpawns, RaceActive)]_vars

SeqSpec == Init /\ [][Next(SeqIds, SeqSpawns, SeqActive)]_vars

PairSpec == Init /\ [][Next(PairIds, PairSpawns, PairActive)]_vars

\* a step of task w: the runtime polls every task that is ready, and the
\* server answers every request
WorkerStep(w) ==
  /\ w \in 1..Len(workers)
  /\ \/ W_read(w) \/ W_token(w) \/ W_running(w) \/ W_stat(w) \/ W_send(w)
     \/ W_open(w) \/ W_next(w) \/ W_cancelled(w) \/ W_stream_err(w)
     \/ W_write(w) \/ W_publish(w) \/ W_flush(w) \/ W_rename(w) \/ W_finalize(w)

\* the commands and the workers, every spawned task being run on
LiveSpec ==
  /\ Init
  /\ [][Next(LiveIds, LiveSpawns, LiveActive)]_vars
  /\ \A w \in 1..LiveSpawns : WF_vars(WorkerStep(w))

\* the commands and the workers while the wall clock advances
TimedNext ==
  \/ Next(TimedIds, TimedSpawns, TimedActive)
  \/ Tick

TimedSpec == Init /\ [][TimedNext]_vars

\* one transfer that is only paused and resumed: resume_download is called
\* on a Paused record, cancel / restart / remove are not called
CycleNext ==
  \/ \E p \in Payloads : start_download(p) /\ Within(RaceIds, RaceSpawns, RaceActive)
  \/ \E id \in Known : pause_download(id)
  \/ \E id \in Known : /\ Has(id)
                        /\ downloads[id].info.status = "Paused"
                        /\ resume_download(id)
                        /\ Within(RaceIds, RaceSpawns, RaceActive)
  \/ \E w \in 1..Len(workers) : W_read(w)
  \/ \E w \in 1..Len(workers) : W_token(w)
  \/ \E w \in 1..Len(workers) : W_running(w)
  \/ \E w \in 1..Len(workers) : W_stat(w)
  \/ \E w \in 1..Len(workers) : W_send(w)
  \/ \E w \in 1..Len(workers) : W_open(w)
  \/ \E w \in 1..Len(workers) : W_next(w)
  \/ \E w \in 1..Len(workers) : W_cancelled(w)
  \/ \E w \in 1..Len(workers) : W_stream_err(w)
  \/ \E w \in 1..Len(workers) : W_write(w)
  \/ \E w \in 1..Len(workers) : W_publish(w)
  \/ \E w \in 1..Len(workers) : W_flush(w)
  \/ \E w \in 1..Len(workers) : W_rename(w)
  \/ \E w \in 1..Len(workers) : W_finalize(w)

CycleSpec == Init /\ [][CycleNext]_vars

\* ================================================================ claims
WorkerIds == 1..Len(workers)

\* the tasks of transfer id that were spawned and have not returned
ActiveWorkers(id) == {w \in WorkerIds : Active(w) /\ workers[w].id = id}

\* task w takes the step
Steps(w) == workers'[w] # workers[w]

\* task w holds a clone of a token (it is past lines 489-495)
HoldsToken(w) == Active(w) /\ workers[w].pc \notin {"start", "token"}

Status(id) == downloads[id].info.status

\* the step is a command's: no task moves and the clock stands still
CommandStep == clock' = clock /\ \A w \in WorkerIds : workers'[w] = workers[w]

\* the step is this command on this id, returning
Returns(cmd, id) == CommandStep /\ reply'.cmd = cmd /\ reply'.id = id

\* C1: no transfer id ever has more than one active worker (a run_download
\* task that was spawned and has not returned).
C1_AtMostOneWorker ==
  \A id \in 1..nextId : Cardinality(ActiveWorkers(id)) <= 1

\* C2: two Http records that are in the registry at the same time never
\* have the same save_path (and so never the same temp_path).
C2_UniqueSavePath ==
  \A i, j \in DOMAIN downloads :
    (i # j /\ downloads[i].info.kind = "Http" /\ downloads[j].info.kind = "Http")
      => downloads[i].info.save_path # downloads[j].info.save_path

\* C3: when cancel_download has tripped the token of the current attempt,
\* the worker that observes that token tripped leaves the status Canceled:
\* its update after the observation never ends in another status.
C3_CanceledWins ==
  [][\A w \in WorkerIds :
       (/\ workers[w].pc = "cancelled"
        /\ Steps(w)
        /\ Has(workers[w].id)
        /\ downloads[workers[w].id].cancel = workers[w].cancel
        /\ tokens[workers[w].cancel] = "cancel")
       => downloads'[workers[w].id].info.status = "Canceled"]_vars

\* C4: once resume_download or restart_download has installed a new token,
\* a step of a worker that holds the tripped token of an earlier attempt
\* never changes the record's status while the new attempt is Queued or
\* Running, and a token that is no longer the record's is never tripped.
C4_StaleWorkerHarmless ==
  [][/\ \A w \in WorkerIds :
          (/\ HoldsToken(w)
           /\ Steps(w)
           /\ Has(workers[w].id)
           /\ downloads[workers[w].id].cancel # workers[w].cancel
           /\ is_cancelled(workers[w].cancel)
           /\ Status(workers[w].id) \in {"Queued", "Running"})
          => downloads'[workers[w].id].info.status = Status(workers[w].id)
     /\ \A t \in 1..Len(tokens) :
          tokens'[t] # tokens[t] => \E id \in DOMAIN downloads : downloads[id].cancel = t
    ]_vars

\* C5: whenever a record is Completed, the file at its save_path holds
\* exactly the server's body: every byte once and in order.
C5_CompletedFileIsBody ==
  \A id \in DOMAIN downloads :
    Status(id) = "Completed"
      => /\ Exists(downloads[id].info.save_path)
         /\ inodes[files[downloads[id].info.save_path]] = Body

\* C6: every Completed record has a file at its save_path and none at its
\* temp_path.
C6_CompletedHasFinalFileOnly ==
  \A id \in DOMAIN downloads :
    Status(id) = "Completed"
      => /\ Exists(downloads[id].info.save_path)
         /\ ~Exists(downloads[id].info.temp_path)

\* C7: a Magnet or Torrent record has status External and no worker, in
\* every state in which it is in the registry.
C7_ExternalStaysExternal ==
  \A id \in DOMAIN downloads :
    downloads[id].info.kind # "Http"
      => /\ Status(id) = "External"
         /\ \A w \in WorkerIds : workers[w].id # id

\* C8: remove_download on a Running, Queued or Paused record returns "Stop
\* the download before removing it." and leaves the registry as it was; a
\* record leaves the registry only in status Completed, Failed, Canceled or
\* External.
C8_RemoveOnlyWhenStopped ==
  [][\A id \in DOMAIN downloads :
       /\ (Status(id) \in {"Running", "Queued", "Paused"} /\ Returns("remove", id))
            => /\ reply'.result = "Stop the download before removing it."
               /\ downloads' = downloads
       /\ id \notin DOMAIN downloads'
            => Status(id) \in {"Completed", "Failed", "Canceled", "External"}
    ]_vars

\* reached: remove_download was refused on a record that a worker is running
C8_Witness ==
  /\ reply.cmd = "remove"
  /\ reply.result = "Stop the download before removing it."
  /\ Has(reply.id)
  /\ Status(reply.id) = "Running"
  /\ ActiveWorkers(reply.id) # {}

\* C9: an id that was removed from the registry is in it in no later state,
\* whatever its workers and the commands do.
C9_RemovedStaysRemoved ==
  [][\A id \in 1..nextId : ~Has(id) => id \notin DOMAIN downloads']_vars

\* reached: a transfer was removed while its worker is between its updates,
\* and a later start_download has made another record
C9_Witness ==
  \E id \in 1..nextId :
    /\ ~Has(id)
    /\ \E w \in ActiveWorkers(id) : workers[w].pc \in {"publish", "flush", "complete"}
    /\ \E other \in DOMAIN downloads : other > id

\* C10: once a worker has failed a resume attempt on 416 or on a status
\* other than 206 (Failed, resume_supported = FALSE) and the temp file still
\* holds bytes, resume_download returns "Server does not support resume.
\* Restart the download instead.", changes no record and spawns no worker.
ResumeRefusedByServer(id) ==
  /\ Has(id)
  /\ Status(id) = "Failed"
  /\ downloads[id].info.error \in {"Range not satisfiable. Restart the download.",
                                   "Server does not support resume"}
  /\ ~downloads[id].info.resume_supported
  /\ FileLen(downloads[id].info.temp_path) > 0

C10_ResumeStaysRefused ==
  [][\A id \in 1..nextId :
       (ResumeRefusedByServer(id) /\ Returns("resume", id))
         => /\ reply'.result = "Server does not support resume. Restart the download instead."
            /\ downloads' = downloads
            /\ workers' = workers]_vars

\* the task the last command spawned: no command has returned since, so it
\* is the last one spawned
LastSpawned == Len(workers)

\* C11: the worker that restart_download spawned issues its request without
\* a Range header: when it has stat'ed the temp file and is about to send,
\* its starting offset is 0, whatever the workers of earlier attempts do.
C11_RestartFromZero ==
  \A id \in DOMAIN downloads :
    (/\ reply = Reply("restart", id, "Ok")
     /\ workers[LastSpawned].id = id
     /\ workers[LastSpawned].pc = "send")
      => workers[LastSpawned].downloaded_bytes = 0

\* C12: the downloaded_bytes of a record is lowered by no step other than
\* restart_download: not by a worker's publish, not by pause_download,
\* resume_download or cancel_download.
C12_DownloadedNeverDecreases ==
  [][\A id \in DOMAIN downloads :
       (/\ id \in DOMAIN downloads'
        /\ downloads'[id].info.downloaded_bytes < downloads[id].info.downloaded_bytes)
         => Returns("restart", id)]_vars

\* C13: every record whose total_bytes is known has downloaded_bytes <=
\* total_bytes, the server delivering exactly the bytes its Content-Length
\* announces, across pause, resume, restart and the workers' publishes.
C13_DownloadedWithinTotal ==
  \A id \in DOMAIN downloads :
    downloads[id].info.total_bytes # None
      => downloads[id].info.downloaded_bytes <= downloads[id].info.total_bytes

\* reached: a worker that resumed at a positive offset has published the
\* last byte of a transfer whose total is known
C13_Witness ==
  \E w \in WorkerIds :
    /\ workers[w].pc = "rename"
    /\ workers[w].append
    /\ Has(Id(w))
    /\ downloads[Id(w)].info.total_bytes = BodyLen
    /\ downloads[Id(w)].info.downloaded_bytes = BodyLen

\* C14: pause_download on a record that is not Running, cancel_download on
\* a Completed or Canceled record and resume_download on a Completed record
\* return Ok, leave the registry as it was (no field, no token tripped or
\* replaced) and spawn no worker.
C14_NoOpCommands ==
  [][\A id \in DOMAIN downloads :
       (\/ Returns("pause", id) /\ Status(id) # "Running"
        \/ Returns("cancel", id) /\ Status(id) \in {"Completed", "Canceled"}
        \/ Returns("resume", id) /\ Status(id) = "Completed")
         => /\ reply'.result = "Ok"
            /\ downloads' = downloads
            /\ tokens' = tokens
            /\ workers' = workers]_vars

\* reached: resume_download has returned on a Completed record and the only
\* worker ever spawned is the one of start_download
C14_Witness ==
  /\ reply = Reply("resume", 1, "Ok")
  /\ Has(1)
  /\ Status(1) = "Completed"
  /\ Len(workers) = 1

RECURSIVE Count(_, _)
Count(seq, id) ==
  IF seq = << >> THEN 0
  ELSE (IF Head(seq) = id THEN 1 ELSE 0) + Count(Tail(seq), id)

\* C16: a download:completed event for an id is emitted only by a worker of
\* that id that has renamed the temp file to save_path and, in the step, has
\* set the record's status to Completed; a transfer with a single attempt
\* has at most one event, and exactly one once it is Completed.
C16_CompletedEvent ==
  [][/\ events' # events
          => \E w \in WorkerIds :
               /\ workers[w].pc = "complete"
               /\ Steps(w)
               /\ events' = Append(events, Id(w))
               /\ Id(w) \in DOMAIN downloads'
               /\ downloads'[Id(w)].info.status = "Completed"
     /\ \A id \in DOMAIN downloads' :
          Cardinality({w \in 1..Len(workers') : workers'[w].id = id}) = 1
            => /\ Count(events', id) <= 1
               /\ downloads'[id].info.status = "Completed" => Count(events', id) = 1
    ]_vars

\* C17: a step that changes a field of a record sets the record's
\* updated_at to the reading of the clock at that step; with the clock
\* never going back, updated_at never decreases and is never below
\* created_at.
C17_UpdatedAtStamped ==
  [][/\ \A id \in DOMAIN downloads \cap DOMAIN downloads' :
          /\ downloads'[id].info # downloads[id].info
               => downloads'[id].info.updated_at = now_ms
          /\ downloads'[id].info.updated_at >= downloads[id].info.updated_at
     /\ \A id \in DOMAIN downloads' :
          downloads'[id].info.updated_at >= downloads'[id].info.created_at
    ]_vars

\* reached: a transfer created at one reading of the clock was completed by
\* its worker at a later one
C17_Witness ==
  \E id \in DOMAIN downloads :
    /\ Status(id) = "Completed"
    /\ downloads[id].info.created_at = 0
    /\ downloads[id].info.updated_at = MaxClock
    /\ clock = MaxClock

\* C18: a worker whose token pause_download or cancel_download has tripped
\* takes no further chunk: at the head of the loop it goes on to no write,
\* and writes nothing there, so the only chunk it still writes is the one
\* whose check it had passed while the token was live.
C18_CancelAtChunkBoundary ==
  [][\A w \in WorkerIds :
       /\ (Steps(w) /\ workers[w].pc = "next" /\ is_cancelled(workers[w].cancel))
            => /\ workers'[w].pc \in {"flush", "cancelled"}
               /\ inodes' = inodes
       /\ (Steps(w) /\ workers'[w].pc = "write")
            => /\ workers[w].pc = "next"
               /\ ~is_cancelled(workers[w].cancel)
       /\ (Steps(w) /\ workers[w].pc \notin {"open", "write"}) => inodes' = inodes
    ]_vars

\* reached: the token was tripped after the worker had passed the check of
\* a chunk, which it is about to write
C18_Witness ==
  \E w \in WorkerIds :
    /\ workers[w].pc = "write"
    /\ is_cancelled(workers[w].cancel)
    /\ reply.cmd \in {"pause", "cancel"}
    /\ reply.id = Id(w)

\* C19: the offset a worker starts from is the length of the temp file when
\* it is stat'ed (0 if there is none), whatever the record said; the request
\* carries Range: bytes={offset}- exactly when the offset is positive, and
\* the temp file is opened for append exactly when the offset is positive,
\* and is truncated otherwise.
C19_OffsetFromDisk ==
  [][\A w \in WorkerIds :
       /\ (Steps(w) /\ workers[w].pc = "stat")
            => /\ workers'[w].downloaded_bytes = FileLen(TempPath(workers[w].save_path))
               /\ (workers'[w].range # << >>) <=> (workers'[w].downloaded_bytes > 0)
               /\ workers'[w].range # << >>
                    => workers'[w].range[1] = workers'[w].downloaded_bytes
       /\ (Steps(w) /\ workers[w].pc = "open")
            => /\ workers'[w].append <=> (workers[w].downloaded_bytes > 0)
               /\ inodes'[workers'[w].file] =
                    IF workers[w].downloaded_bytes > 0 /\ workers'[w].file \in DOMAIN inodes
                    THEN inodes[workers'[w].file]
                    ELSE << >>
    ]_vars

\* reached: a worker has read a record that says more bytes than the temp
\* file holds, has stat'ed the file and built its request
C19_Witness ==
  \E w \in WorkerIds :
    /\ workers[w].pc = "send"
    /\ Has(Id(w))
    /\ downloads[Id(w)].info.downloaded_bytes > workers[w].downloaded_bytes
    /\ FileLen(TempPath(workers[w].save_path)) = workers[w].downloaded_bytes
    /\ reply.cmd = "resume"

\* C20: no step does file or network I/O while it holds the registry lock.
\* A section run under the lock is one step, so no step that changes the
\* registry (a record, or a record's token) changes the directory or a
\* file's content.
C20_NoIoUnderLock ==
  [][(downloads' # downloads \/ tokens' # tokens)
       => (files' = files /\ inodes' = inodes)]_vars

\* C21: a record that cancel_download has set to Canceled stays Canceled
\* until resume_download or restart_download is called on it: no step of a
\* worker changes the status of a Canceled record.
C21_CanceledUntilResumed ==
  [][\A id \in DOMAIN downloads \cap DOMAIN downloads' :
       (Status(id) = "Canceled" /\ downloads'[id].info.status # "Canceled")
         => (Returns("resume", id) \/ Returns("restart", id))]_vars

\* C22: a record that is Running or Queued has a worker of its id that was
\* spawned and has not returned: no worker returns leaving the record in
\* one of these two statuses with nothing executing it.
C22_ActiveStatusHasWorker ==
  \A id \in DOMAIN downloads :
    Status(id) \in {"Running", "Queued"} => ActiveWorkers(id) # {}

\* reached: a worker of a transfer has returned and the record is Running
\* again, under a worker of a later attempt
C22_Witness ==
  \E id \in DOMAIN downloads :
    /\ Status(id) = "Running"
    /\ \E w \in WorkerIds : workers[w].id = id /\ ~Active(w)
    /\ \E w \in ActiveWorkers(id) : workers[w].pc = "write"

\* no control command is issued after start_download
NoCommandAfterStart == [](reply.cmd \in {"none", "start"})

\* the record settles in a status for good
Settles(id, status) == <>[](Has(id) /\ Status(id) = status)

\* C23: the tasks being run on and the server answering every request with
\* a finite body or an error, every worker that was spawned eventually
\* returns; and if no control command follows the start_download of an Http
\* url, its record eventually is Completed or Failed and keeps that status.
C23_WorkersReturn ==
  /\ \A w \in 1..LiveSpawns :
       [](w \in WorkerIds => <>(w \in WorkerIds /\ ~Active(w)))
  /\ \A id \in 1..LiveIds :
       (NoCommandAfterStart /\ <>(Has(id) /\ downloads[id].info.kind = "Http"))
         => (Settles(id, "Completed") \/ Settles(id, "Failed"))

\* reached: with no command after start_download, the worker has returned
\* and the record is Completed
C23_Witness ==
  /\ reply = Reply("start", 1, "Ok")
  /\ Has(1)
  /\ Status(1) = "Completed"
  /\ Len(workers) = 1
  /\ ~Active(1)

====
